---- MODULE Spec2Model ----
(***************************************************************************)
(* Six one-shot patch scripts (src/fix-*.py).  Each reads one text file,   *)
(* applies an ordered list of re.sub rules to the buffer and writes the    *)
(* buffer back to the same path.                                           *)
(*                                                                         *)
(* Text is a sequence of lexical tokens: a token is either one non-word    *)
(* character (punctuation, blank, "\n", "\r") or a piece of a word (the    *)
(* pieces of a camel-case word are separate tokens, adjacent word tokens   *)
(* form one word).  Regular expressions are sequences of items matched     *)
(* with Python's greedy, backtracking, leftmost semantics.                 *)
(***************************************************************************)
EXTENDS Integers, Sequences, FiniteSets, TLC

---------------------------------------------------------------------------
(* Bounds *)

\* a file is the concatenation of at most MaxFrags fragments
MaxFrags == 2

\* a failed write leaves at most MaxPartial tokens behind
MaxPartial == 2

\* at most MaxFaults I/O failures are injected along one behaviour
MaxFaults == 1

\* fix-simulate-final is run at most MaxFinalRuns times in a row
MaxFinalRuns == 2

---------------------------------------------------------------------------
(* Character classes *)

\* every character that is not matched by \w
NonWord ==
    {" ", "\n", "\r", "\t", "{", "}", "(", ")", "[", "]", "<", ">", ":",
     ";", ",", ".", "'", "\"", "=", "/", "-", "+", "*", "!", "?", "&", "|"}

\* \s
Space == {" ", "\n", "\r", "\t"}

\* ['"]
Quote == {"'", "\""}

\* the tokens made of the characters 0-9 only
Digits ==
    {"0", "1", "2", "3", "4", "5", "6", "18", "200", "1000", "42161",
     "5000000", "10000000", "50000000", "100000000", "500000000",
     "1000000000", "1500000000", "1700000000", "2000000000",
     "2100000000", "50000000000000000", "100000000000000000",
     "1000000000000000000", "1050000000000000000", "1100000000000000000",
     "1500000000000000000", "2000000000000000000",
     "10000000000000000000000"}

---------------------------------------------------------------------------
(* Regular expressions *)

Cls(S, neg, min, many, grp) ==
    [kind |-> "cls", toks |-> <<>>, set |-> S, neg |-> neg, min |-> min,
     many |-> many, grp |-> grp]

One(S)      == Cls(S, FALSE, 1, FALSE, FALSE)
Opt(S)      == Cls(S, FALSE, 0, FALSE, FALSE)
Star(S)     == Cls(S, FALSE, 0, TRUE, FALSE)
Plus(S)     == Cls(S, FALSE, 1, TRUE, FALSE)
PlusNot(S)  == Cls(S, TRUE, 1, TRUE, FALSE)
Grp(item)   == [item EXCEPT !.grp = TRUE]
Word        == PlusNot(NonWord)
WordBoundary == [kind |-> "b", toks |-> <<>>, set |-> {}, neg |-> FALSE,
                 min |-> 0, many |-> FALSE, grp |-> FALSE]

\* literal text
Lit(toks) ==
    <<[kind |-> "lit", toks |-> toks, set |-> {}, neg |-> FALSE, min |-> 1,
       many |-> FALSE, grp |-> FALSE]>>

LitAt(toks, s, i) ==
    /\ i + Len(toks) - 1 <= Len(s)
    /\ s[i] = toks[1]
    /\ SubSeq(s, i, i + Len(toks) - 1) = toks

Matches(item, t) == (t \in item.set) # item.neg

IsWord(t) == t \notin NonWord

AtBoundary(s, i) ==
    ((i > 1) /\ IsWord(s[i - 1])) # ((i <= Len(s)) /\ IsWord(s[i]))

\* number of consecutive tokens from position i that the item can take
Run(item, s, i) ==
    IF item.many
    THEN LET stop == CHOOSE j \in i..(Len(s) + 1) :
                        /\ (j = Len(s) + 1) \/ ~Matches(item, s[j])
                        /\ \A k \in i..(j - 1) : Matches(item, s[k])
         IN  stop - i
    ELSE IF i <= Len(s) /\ Matches(item, s[i]) THEN 1 ELSE 0

NoMatch == <<0, 0, 0>>

\* <<end, group start, group end>> of the match of re[k..] at position i
\* that the backtracking matcher finds first, or NoMatch: a quantified
\* item takes the largest count for which the rest of the pattern matches
RECURSIVE MatchAt(_, _, _, _)
MatchAt(re, k, s, i) ==
    IF k > Len(re) THEN <<i, 0, 0>>
    ELSE IF re[k].kind = "b"
    THEN IF AtBoundary(s, i) THEN MatchAt(re, k + 1, s, i) ELSE NoMatch
    ELSE IF re[k].kind = "lit"
    THEN IF LitAt(re[k].toks, s, i)
         THEN MatchAt(re, k + 1, s, i + Len(re[k].toks))
         ELSE NoMatch
    ELSE IF re[k].min = 1 /\ ~re[k].many
    THEN IF i <= Len(s) /\ Matches(re[k], s[i])
         THEN LET r == MatchAt(re, k + 1, s, i + 1)
              IN  IF r # NoMatch /\ re[k].grp THEN <<r[1], i, i + 1>> ELSE r
         ELSE NoMatch
    ELSE LET tries == {<<n, MatchAt(re, k + 1, s, i + n)>> :
                          n \in re[k].min..Run(re[k], s, i)}
             found == {t \in tries : t[2] # NoMatch}
         IN  IF found = {} THEN NoMatch
             ELSE LET t == CHOOSE x \in found : \A y \in found : y[1] <= x[1]
                  IN  IF re[k].grp THEN <<t[2][1], i, i + t[1]>> ELSE t[2]

\* the positions at which the pattern matches
Starts(re, s) == {i \in 1..Len(s) : MatchAt(re, 1, s, i) # NoMatch}

HasMatch(re, s) == Starts(re, s) # {}

\* replacement templates: text, optionally with \1 in the middle
Text(toks)           == [pre |-> toks, grp |-> FALSE, post |-> <<>>]
WithGroup(pre, post) == [pre |-> pre, grp |-> TRUE, post |-> post]

Expand(tpl, s, m) ==
    tpl.pre \o (IF tpl.grp THEN SubSeq(s, m[2], m[3] - 1) ELSE <<>>)
            \o tpl.post

Least(S) == CHOOSE x \in S : \A y \in S : x <= y

\* re.sub(re, tpl, s): leftmost non-overlapping matches, left to right;
\* the scan resumes at the end of each match
RECURSIVE SubFrom(_, _, _, _, _)
SubFrom(re, tpl, s, i, starts) ==
    LET later == {j \in starts : j >= i}
    IN  IF later = {} THEN SubSeq(s, i, Len(s))
        ELSE LET j == Least(later)
                 m == MatchAt(re, 1, s, j)
             IN  SubSeq(s, i, j - 1) \o Expand(tpl, s, m)
                 \o SubFrom(re, tpl, s, m[1], starts)

Sub(re, tpl, s) == SubFrom(re, tpl, s, 1, Starts(re, s))

\* end of the last match that re.finditer(re, s) yields, 0 if none
RECURSIVE LastMatchEnd(_, _, _, _)
LastMatchEnd(re, s, i, starts) ==
    LET later == {j \in starts : j >= i}
    IN  IF later = {} THEN 0
        ELSE LET m == MatchAt(re, 1, s, Least(later))
                 rest == LastMatchEnd(re, s, m[1], starts)
             IN  IF rest # 0 THEN rest ELSE m[1]

---------------------------------------------------------------------------
(* fix-graphql-mocks.py *)

\* as graphql_pattern, without the \b
graphql_pattern_unanchored ==
    Lit(
        <<"graphql", "Client", ".", "request", ".", "mock">>)

graphql_pattern ==
    <<WordBoundary>> \o Lit(
        <<"graphql", "Client", ".", "request", ".", "mock">>)

graphql_replacement ==
    Text(
        <<"vi", ".", "mocked", "(", "graphql", "Client", ")", ".",
          "request", ".", "mock">>)

graphql_rule1(s) == Sub(graphql_pattern, graphql_replacement, s)

---------------------------------------------------------------------------
(* fix-simulate-complete.py *)

import_pattern ==
    Lit(<<"import">>) \o <<PlusNot({";"})>> \o Lit(<<"from", " ">>)
    \o <<One(Quote), PlusNot({"'", "\"", ";"}), One(Quote)>>
    \o Lit(<<";", "\n">>)

imports_to_add ==
        <<"import", " ", "type", " ", "{", " ", "Vault", ",", " ",
          "Simulation", "Result", " ", "}", " ", "from", " ", "'", ".",
          ".", "/", ".", ".", "/", "types", "/", "generated", ".", "js",
          "'", ";", "\n">>

InsertAfter(s, pos, toks) ==
    SubSeq(s, 1, pos - 1) \o toks \o SubSeq(s, pos, Len(s))

\* as complete_rule1, but the import goes to the top when no import
\* statement is found
complete_rule1_always(s) ==
    LET insert_pos == LastMatchEnd(import_pattern, s, 1,
                                   Starts(import_pattern, s))
    IN  InsertAfter(s, IF insert_pos # 0 THEN insert_pos ELSE 1,
                    imports_to_add)

\* rule 1: insert the import after the last import statement, if any
complete_rule1(s) ==
    LET insert_pos == LastMatchEnd(import_pattern, s, 1, Starts(import_pattern, s))
    IN  IF insert_pos # 0 THEN InsertAfter(s, insert_pos, imports_to_add)
        ELSE s

simulation_result_pattern ==
    Lit(<<"const", " ">>) \o <<Grp(Word)>> \o Lit(
        <<":", " ", "Simulation", "Result", " ", "=", " ", "{">>)
    \o <<PlusNot({"}"})>> \o Lit(<<"}", ";">>)

replace_simulation_result ==
    WithGroup(<<"const", " ">>,
        <<":", " ", "Simulation", "Result", " ", "=", " ", "{", "\n",
          " ", " ", " ", " ", "total", "Supply", ":", " ", "Big", "Int",
          "(", "'", "2000000000000000000", "'", ")", ",", "\n", " ", " ",
          " ", " ", "total", "Assets", ":", " ", "Big", "Int", "(", "'",
          "2000000000", "'", ")", ",", "\n", " ", " ", " ", " ", "price",
          "Per", "Share", ":", " ", "Big", "Int", "(", "'",
          "1050000000000000000", "'", ")", ",", "\n", " ", " ", " ", " ",
          "management", "Fees", ":", " ", "Big", "Int", "(", "'", "0",
          "'", ")", ",", "\n", " ", " ", " ", " ", "performance", "Fees",
          ":", " ", "Big", "Int", "(", "'", "0", "'", ")", ",", "\n",
          " ", " ", " ", " ", "excess", "Returns", ":", " ", "Big",
          "Int", "(", "'", "0", "'", ")", ",", "\n", " ", " ", " ", " ",
          "period", "Net", "Apr", ":", " ", "0", ",", "\n", " ", " ",
          " ", " ", "linear", "Net", "Apr", ":", " ", "0", ",", "\n",
          " ", " ", " ", " ", "compounded", "Net", "Apr", ":", " ", "0",
          ",", "\n", " ", " ", " ", " ", "total", "Assets", "At", "End",
          ":", " ", "Big", "Int", "(", "'", "2000000000", "'", ")", ",",
          "\n", " ", " ", " ", " ", "total", "Supply", "At", "End", ":",
          " ", "Big", "Int", "(", "'", "2000000000000000000", "'", ")",
          ",", "\n", " ", " ", "}", ";">>)

complete_rule2(s) ==
    Sub(simulation_result_pattern, replace_simulation_result, s)

complete_pattern3 ==
    Lit(
        <<"mock", "Vault", ".", "state">>)

complete_rule3(s) ==
    Sub(complete_pattern3, Text(
        <<"(", "mock", "Vault", " ", "as", " ", "any", ")", ".", "state">>), s)

complete_pattern4 == Lit(<<"as", " ", "Vault">>)

complete_rule4(s) == Sub(complete_pattern4, Text(<<"as", " ", "any">>), s)

complete_pattern5 ==
    Lit(
        <<"vi", ".", "mocked", "(", "graphql", "Client", ")", ".",
          "request", ".", "mock", "Resolved", "Value", "Once", "(", "{",
          " ", "vault", ":", " ", "mock", "Vault", " ", "}", ")", ";">>)

complete_rule5(s) ==
    Sub(complete_pattern5, Text(
        <<"vi", ".", "mocked", "(", "graphql", "Client", ")", ".",
          "request", ".", "mock", "Resolved", "Value", "Once", "(", "{",
          " ", "vault", ":", " ", "mock", "Vault", " ", "}", " ", "as",
          " ", "any", ")", ";">>), s)

complete_pattern6 ==
    Lit(
        <<".", "request", ".", "mock", "Resolved", "Value", "Once", "(",
          "{", " ", "vault", ":", " ", "mock", "Vault", " ", "}", ")">>)

complete_rule6(s) ==
    Sub(complete_pattern6, Text(
        <<".", "request", ".", "mock", "Resolved", "Value", "Once", "(",
          "{", " ", "vault", ":", " ", "mock", "Vault", " ", "}", " ",
          "as", " ", "any", ")">>), s)

---------------------------------------------------------------------------
(* fix-simulate-final.py *)

final_pattern1 ==
    Lit(
        <<":", " ", "Simulation", "Result", " ", "=", " ", "{">>)

final_rule1(s) ==
    Sub(final_pattern1, Text(
        <<":", " ", "Lagoon", "Simulation", "Result", " ", "=", " ", "{">>), s)

\* \s*<name>: BigInt\([^}]+\}
FieldUpToBrace(name) ==
    <<Star(Space)>> \o Lit(name) \o Lit(<<":", " ", "Big", "Int", "(">>)
    \o <<PlusNot({"}"})>> \o Lit(<<"}">>)

LagoonDecl(name) ==
    Lit(<<"const", " ">>) \o Lit(name) \o Lit(
        <<":", " ", "Lagoon", "Simulation", "Result", " ", "=", " ", "{">>)

ObjectEnd == <<Star(Space)>> \o Lit(<<"}", ";">>)

\* patterns_to_fix: <<pattern, replacement>>
patterns_to_fix ==
    << <<LagoonDecl(<<"withdrawal", "Result">>)
         \o FieldUpToBrace(<<"total", "Supply">>)
         \o FieldUpToBrace(<<"total", "Assets">>)
         \o FieldUpToBrace(<<"price", "Per", "Share">>) \o ObjectEnd,
        <<"const", " ", "withdrawal", "Result", ":", " ", "Lagoon",
          "Simulation", "Result", " ", "=", " ", "{", "\n", " ", " ",
          " ", " ", "total", "Supply", ":", " ", "Big", "Int", "(", "'",
          "1500000000000000000", "'", ")", ",", "\n", " ", " ", " ", " ",
          "total", "Assets", ":", " ", "Big", "Int", "(", "'",
          "1500000000", "'", ")", ",", "\n", " ", " ", " ", " ", "fees",
          "Accrued", ":", " ", "Big", "Int", "(", "'", "5000000", "'",
          ")", ",", "\n", " ", " ", " ", " ", "price", "Per", "Share",
          ":", " ", "Big", "Int", "(", "'", "1000000000000000000", "'",
          ")", ",", "\n", " ", " ", "}", ";">>>>,
       <<LagoonDecl(<<"appreciated", "Result">>)
         \o FieldUpToBrace(<<"total", "Supply">>)
         \o FieldUpToBrace(<<"total", "Assets">>) \o ObjectEnd,
        <<"const", " ", "appreciated", "Result", ":", " ", "Lagoon",
          "Simulation", "Result", " ", "=", " ", "{", "\n", " ", " ",
          " ", " ", "total", "Supply", ":", " ", "Big", "Int", "(", "'",
          "2000000000000000000", "'", ")", ",", "\n", " ", " ", " ", " ",
          "total", "Assets", ":", " ", "Big", "Int", "(", "'",
          "2100000000", "'", ")", ",", "\n", " ", " ", " ", " ", "fees",
          "Accrued", ":", " ", "Big", "Int", "(", "'", "10000000", "'",
          ")", ",", "\n", " ", " ", " ", " ", "price", "Per", "Share",
          ":", " ", "Big", "Int", "(", "'", "1100000000000000000", "'",
          ")", ",", "\n", " ", " ", "}", ";">>>>,
       <<LagoonDecl(<<"new", "Vault", "Result">>)
         \o FieldUpToBrace(<<"total", "Supply">>)
         \o FieldUpToBrace(<<"total", "Assets">>)
         \o FieldUpToBrace(<<"price", "Per", "Share">>) \o ObjectEnd,
        <<"const", " ", "new", "Vault", "Result", ":", " ", "Lagoon",
          "Simulation", "Result", " ", "=", " ", "{", "\n", " ", " ",
          " ", " ", "total", "Supply", ":", " ", "Big", "Int", "(", "'",
          "1000000000000000000", "'", ")", ",", "\n", " ", " ", " ", " ",
          "total", "Assets", ":", " ", "Big", "Int", "(", "'",
          "1000000000", "'", ")", ",", "\n", " ", " ", " ", " ", "fees",
          "Accrued", ":", " ", "Big", "Int", "(", "'", "0", "'", ")",
          ",", "\n", " ", " ", " ", " ", "price", "Per", "Share", ":",
          " ", "Big", "Int", "(", "'", "1000000000000000000", "'", ")",
          ",", "\n", " ", " ", "}", ";">>>> >>

final_rule2(j, s) ==
    Sub(patterns_to_fix[j][1], Text(patterns_to_fix[j][2]), s)

MockReturnValueCall ==
        <<"vi", ".", "mocked", "(", "simulate", "Vault", "Management",
          ")", ".", "mock", "Return", "Value", "(">>

final_pattern3 ==
    Lit(MockReturnValueCall) \o <<Grp(PlusNot({")"}))>> \o Lit(<<")", ";">>)

final_rule3(s) ==
    Sub(final_pattern3,
        WithGroup(MockReturnValueCall,
                  <<" ", "as", " ", "any", ")", ";">>), s)

final_pattern4 ==
    Lit(
        <<"{", " ", "vault", ":", " ", "mock", "Vault", " ", "}", " ",
          "as", " ", "any">>)

final_rule4(s) ==
    Sub(final_pattern4, Text(
        <<"{", " ", "vault", ":", " ", "mock", "Vault", " ", "}">>), s)

final_pattern5 ==
    Lit(
        <<"(", "mock", "Vault", " ", "as", " ", "any", ")", ".", "state">>)

final_rule5(s) ==
    Sub(final_pattern5, Text(
        <<"(", "mock", "Vault", " ", "as", " ", "any", ")", ".", "state">>), s)

\* as final_step, with the steps 3 and 4 of the script exchanged
final_step_swapped(k, s) ==
    CASE k = 1 -> final_rule1(s)
      [] k \in 2..4 -> final_rule2(k - 1, s)
      [] k = 5 -> final_rule4(s)
      [] k = 6 -> final_rule3(s)
      [] k = 7 -> final_rule5(s)

\* the k-th substitution of fix_simulate_vault_final, in statement order
final_step(k, s) ==
    CASE k = 1 -> final_rule1(s)
      [] k \in 2..4 -> final_rule2(k - 1, s)
      [] k = 5 -> final_rule3(s)
      [] k = 6 -> final_rule4(s)
      [] k = 7 -> final_rule5(s)

---------------------------------------------------------------------------
(* fix-simulate-vault.py *)

mock_vault_replacement ==
        <<" ", " ", "const", " ", "mock", "Vault", ":", " ", "Vault",
          " ", "=", " ", "{", "\n", " ", " ", " ", " ", "id", ":", " ",
          "'", "vault", "-", "test", "'", ",", "\n", " ", " ", " ", " ",
          "address", ":", " ", "'",
          "0x1234567890123456789012345678901234567890", "'", ",", "\n",
          " ", " ", " ", " ", "name", ":", " ", "'", "Test", " ",
          "Vault", "'", ",", "\n", " ", " ", " ", " ", "symbol", ":",
          " ", "'", "TEST", "'", ",", "\n", " ", " ", " ", " ",
          "decimals", ":", " ", "18", ",", "\n", " ", " ", " ", " ",
          "description", ":", " ", "'", "Test", " ", "vault", " ", "for",
          " ", "simulation", "'", ",", "\n", " ", " ", " ", " ", "short",
          "Description", ":", " ", "'", "Test", " ", "vault", "'", ",",
          "\n", " ", " ", " ", " ", "is", "Visible", ":", " ", "true",
          ",", "\n", " ", " ", " ", " ", "inception", ":", " ",
          "1700000000", ",", "\n", " ", " ", " ", " ", "max", "Capacity",
          ":", " ", "'", "10000000000000000000000", "'", ",", "\n", " ",
          " ", " ", " ", "logo", "Url", ":", " ", "'", "https", ":", "/",
          "/", "example", ".", "com", "/", "test", ".", "png", "'", ",",
          "\n", " ", " ", " ", " ", "asset", ":", " ", "{", "\n", " ",
          " ", " ", " ", " ", " ", "id", ":", " ", "'", "asset", "-",
          "usdc", "'", ",", "\n", " ", " ", " ", " ", " ", " ",
          "address", ":", " ", "'",
          "0xabcdef1234567890abcdef1234567890abcdef12", "'", ",", "\n",
          " ", " ", " ", " ", " ", " ", "symbol", ":", " ", "'", "USDC",
          "'", ",", "\n", " ", " ", " ", " ", " ", " ", "name", ":", " ",
          "'", "USD", " ", "Coin", "'", ",", "\n", " ", " ", " ", " ",
          " ", " ", "decimals", ":", " ", "6", ",", "\n", " ", " ", " ",
          " ", " ", " ", "network", ":", " ", "'", "Arbitrum", "'", ",",
          "\n", " ", " ", " ", " ", " ", " ", "logo", "Url", ":", " ",
          "'", "https", ":", "/", "/", "example", ".", "com", "/",
          "usdc", ".", "png", "'", ",", "\n", " ", " ", " ", " ", "}",
          ",", "\n", " ", " ", " ", " ", "chain", ":", " ", "{", "\n",
          " ", " ", " ", " ", " ", " ", "id", ":", " ", "'", "42161",
          "'", ",", "\n", " ", " ", " ", " ", " ", " ", "name", ":", " ",
          "'", "Arbitrum", "'", ",", "\n", " ", " ", " ", " ", " ", " ",
          "native", "Token", ":", " ", "'", "ETH", "'", ",", "\n", " ",
          " ", " ", " ", " ", " ", "factory", ":", " ", "'",
          "0xfactory123", "'", ",", "\n", " ", " ", " ", " ", " ", " ",
          "is", "Visible", ":", " ", "true", ",", "\n", " ", " ", " ",
          " ", " ", " ", "logo", "Url", ":", " ", "'", "https", ":", "/",
          "/", "example", ".", "com", "/", "arbitrum", ".", "png", "'",
          ",", "\n", " ", " ", " ", " ", "}", ",", "\n", " ", " ", " ",
          " ", "state", ":", " ", "{", "\n", " ", " ", " ", " ", " ",
          " ", "total", "Supply", ":", " ", "'", "1000000000000000000",
          "'", ",", "\n", " ", " ", " ", " ", " ", " ", "total",
          "Assets", ":", " ", "'", "1000000000", "'", ",", "\n", " ",
          " ", " ", " ", " ", " ", "total", "Assets", "Usd", ":", " ",
          "1000", ".", "0", ",", "\n", " ", " ", " ", " ", " ", " ",
          "total", "Shares", "Issued", ":", " ", "'",
          "1000000000000000000", "'", ",", "\n", " ", " ", " ", " ", " ",
          " ", "high", "Water", "Mark", ":", " ", "'", "1000000000", "'",
          ",", "\n", " ", " ", " ", " ", " ", " ", "last", "Fee", "Time",
          ":", " ", "'", "1700000000", "'", ",", "\n", " ", " ", " ",
          " ", " ", " ", "management", "Fee", ":", " ", "'", "200", "'",
          ",", "\n", " ", " ", " ", " ", " ", " ", "performance", "Fee",
          ":", " ", "'", "1000", "'", ",", "\n", " ", " ", " ", " ", " ",
          " ", "version", ":", " ", "'", "v1", "'", ",", "\n", " ", " ",
          " ", " ", " ", " ", "safe", "Asset", "Balance", ":", " ", "'",
          "500000000", "'", ",", "\n", " ", " ", " ", " ", " ", " ",
          "pending", "Silo", "Balances", ":", " ", "{", "\n", " ", " ",
          " ", " ", " ", " ", " ", " ", "assets", ":", " ", "'",
          "100000000", "'", ",", "\n", " ", " ", " ", " ", " ", " ", " ",
          " ", "shares", ":", " ", "'", "100000000000000000", "'", ",",
          "\n", " ", " ", " ", " ", " ", " ", "}", ",", "\n", " ", " ",
          " ", " ", " ", " ", "pending", "Settlement", ":", " ", "{",
          "\n", " ", " ", " ", " ", " ", " ", " ", " ", "assets", ":",
          " ", "'", "50000000", "'", ",", "\n", " ", " ", " ", " ", " ",
          " ", " ", " ", "shares", ":", " ", "'", "50000000000000000",
          "'", ",", "\n", " ", " ", " ", " ", " ", " ", "}", ",", "\n",
          " ", " ", " ", " ", "}", ",", "\n", " ", " ", " ", " ",
          "airdrops", ":", " ", "[", "]", ",", "\n", " ", " ", " ", " ",
          "incentives", ":", " ", "[", "]", ",", "\n", " ", " ", " ",
          " ", "native", "Yields", ":", " ", "[", "]", ",", "\n", " ",
          " ", " ", " ", "curators", ":", " ", "[", "\n", " ", " ", " ",
          " ", " ", " ", "{", "\n", " ", " ", " ", " ", " ", " ", " ",
          " ", "id", ":", " ", "'", "curator", "-", "test", "'", ",",
          "\n", " ", " ", " ", " ", " ", " ", " ", " ", "name", ":", " ",
          "'", "Test", " ", "Curator", "'", ",", "\n", " ", " ", " ",
          " ", " ", " ", " ", " ", "description", ":", " ", "'", "Test",
          " ", "curator", " ", "for", " ", "simulation", "'", ",", "\n",
          " ", " ", " ", " ", " ", " ", " ", " ", "logo", "Url", ":",
          " ", "'", "https", ":", "/", "/", "example", ".", "com", "/",
          "curator", ".", "png", "'", ",", "\n", " ", " ", " ", " ", " ",
          " ", "}", ",", "\n", " ", " ", " ", " ", "]", ",", "\n", " ",
          " ", "}", " ", "as", " ", "Vault", ";">>

AsConst ==
        <<"}", " ", "as", " ", "const", ",">>

vault_pattern ==
    Lit(
        <<"const", " ", "mock", "Vault", ":", " ", "Vault", "Data", " ",
          "=", " ", "{">>)
    \o <<PlusNot({"}"})>> \o Lit(<<"{">>) \o <<PlusNot({"}"})>> \o Lit(AsConst)
    \o <<PlusNot({"}"})>> \o Lit(<<"{">>) \o <<PlusNot({"}"})>> \o Lit(<<"{">>)
    \o <<PlusNot({"}"})>> \o Lit(AsConst)
    \o <<PlusNot({"}"})>> \o Lit(<<"{">>) \o <<PlusNot({"}"})>> \o Lit(AsConst)
    \o <<PlusNot({"}"})>> \o Lit(AsConst)
    \o <<PlusNot({"}"})>> \o Lit(
        <<"}", " ", "as", " ", "Vault", "Data", ";">>)

vault_rule1(s) == Sub(vault_pattern, Text(mock_vault_replacement), s)

\* as fees_pattern, without the surrounding white space and line end
fees_pattern_bare ==
    Lit(
        <<"fees", "Accrued", ":", " ", "Big", "Int", "(">>)
    \o <<One(Quote), Plus(Digits), One(Quote)>> \o Lit(<<")">>)
    \o <<Opt({","})>>

fees_pattern ==
    <<Plus(Space)>> \o Lit(
        <<"fees", "Accrued", ":", " ", "Big", "Int", "(">>)
    \o <<One(Quote), Plus(Digits), One(Quote)>> \o Lit(<<")">>)
    \o <<Opt({","})>> \o Lit(<<"\n">>)

vault_rule2(s) == Sub(fees_pattern, Text(<<>>), s)

json_parse_pattern ==
    Lit(
        <<"const", " ", "content", " ", "=", " ", "JSON", ".", "parse",
          "(", "result", ".", "content", "[", "0", "]", ".", "text", ")",
          " ", "as", " ", "Record", "<", "string", ",", " ", "unknown",
          ">", ";">>)

vault_rule3(s) ==
    Sub(json_parse_pattern, Text(
        <<"const", " ", "content", " ", "=", " ", "JSON", ".", "parse",
          "(", "result", ".", "content", "[", "0", "]", ".", "text", " ",
          "as", " ", "string", ")", " ", "as", " ", "Record", "<",
          "string", ",", " ", "unknown", ">", ";">>), s)

---------------------------------------------------------------------------
(* fix-simulation-mocks.py *)

\* as mocks_pattern, without the cast
mocks_pattern_uncast ==
    Lit(MockReturnValueCall) \o <<Grp(Word)>> \o Lit(<<")", ";">>)

mocks_pattern ==
    Lit(MockReturnValueCall) \o <<Grp(Word)>>
    \o Lit(<<" ", "as", " ", "any", ")", ";">>)

mocks_rule1(s) ==
    Sub(mocks_pattern,
        WithGroup(
        <<"mock", "Simulate", "Vault", "Management", "(">>,
                  <<")", ";">>), s)

---------------------------------------------------------------------------
(* fix-simulation-results.py *)

ResultDecl(name) ==
    Lit(<<"const", " ">>) \o Lit(name) \o Lit(
        <<":", " ", "Simulation", "Result", " ", "=", " ", "{">>)
    \o <<PlusNot({"}"})>> \o Lit(<<"}", ";">>)

\* simulation_patterns: <<pattern, replacement>>
simulation_patterns ==
    << <<ResultDecl(<<"mock", "Simulation", "Result">>),
        <<"const", " ", "mock", "Simulation", "Result", ":", " ",
          "Simulation", "Result", " ", "=", " ", "{", "\n", " ", " ",
          " ", " ", "total", "Supply", ":", " ", "Big", "Int", "(", "'",
          "2000000000000000000", "'", ")", ",", "\n", " ", " ", " ", " ",
          "total", "Assets", ":", " ", "Big", "Int", "(", "'",
          "2000000000", "'", ")", ",", "\n", " ", " ", " ", " ", "fees",
          "Accrued", ":", " ", "Big", "Int", "(", "'", "10000000", "'",
          ")", ",", "\n", " ", " ", " ", " ", "price", "Per", "Share",
          ":", " ", "Big", "Int", "(", "'", "1050000000000000000", "'",
          ")", ",", "\n", " ", " ", "}", ";">>>>,
       <<ResultDecl(<<"withdrawal", "Result">>),
        <<"const", " ", "withdrawal", "Result", ":", " ", "Simulation",
          "Result", " ", "=", " ", "{", "\n", " ", " ", " ", " ",
          "total", "Supply", ":", " ", "Big", "Int", "(", "'",
          "1500000000000000000", "'", ")", ",", "\n", " ", " ", " ", " ",
          "total", "Assets", ":", " ", "Big", "Int", "(", "'",
          "1500000000", "'", ")", ",", "\n", " ", " ", " ", " ", "fees",
          "Accrued", ":", " ", "Big", "Int", "(", "'", "5000000", "'",
          ")", ",", "\n", " ", " ", " ", " ", "price", "Per", "Share",
          ":", " ", "Big", "Int", "(", "'", "1000000000000000000", "'",
          ")", ",", "\n", " ", " ", "}", ";">>>>,
       <<ResultDecl(<<"appreciated", "Result">>),
        <<"const", " ", "appreciated", "Result", ":", " ", "Simulation",
          "Result", " ", "=", " ", "{", "\n", " ", " ", " ", " ",
          "total", "Supply", ":", " ", "Big", "Int", "(", "'",
          "2000000000000000000", "'", ")", ",", "\n", " ", " ", " ", " ",
          "total", "Assets", ":", " ", "Big", "Int", "(", "'",
          "2100000000", "'", ")", ",", "\n", " ", " ", " ", " ", "fees",
          "Accrued", ":", " ", "Big", "Int", "(", "'", "10000000", "'",
          ")", ",", "\n", " ", " ", " ", " ", "price", "Per", "Share",
          ":", " ", "Big", "Int", "(", "'", "1100000000000000000", "'",
          ")", ",", "\n", " ", " ", "}", ";">>>>,
       <<ResultDecl(<<"new", "Vault", "Result">>),
        <<"const", " ", "new", "Vault", "Result", ":", " ", "Simulation",
          "Result", " ", "=", " ", "{", "\n", " ", " ", " ", " ",
          "total", "Supply", ":", " ", "Big", "Int", "(", "'",
          "1000000000000000000", "'", ")", ",", "\n", " ", " ", " ", " ",
          "total", "Assets", ":", " ", "Big", "Int", "(", "'",
          "1000000000", "'", ")", ",", "\n", " ", " ", " ", " ", "fees",
          "Accrued", ":", " ", "Big", "Int", "(", "'", "0", "'", ")",
          ",", "\n", " ", " ", " ", " ", "price", "Per", "Share", ":",
          " ", "Big", "Int", "(", "'", "1000000000000000000", "'", ")",
          ",", "\n", " ", " ", "}", ";">>>> >>

results_rule1(j, s) ==
    Sub(simulation_patterns[j][1], Text(simulation_patterns[j][2]), s)

any_data_pattern == Lit(<<"as", " ", "any", "Data">>)

results_rule2(s) == Sub(any_data_pattern, Text(<<"as", " ", "any">>), s)

---------------------------------------------------------------------------
(* The six scripts *)

Graphql  == "fix-graphql-mocks"
Complete == "fix-simulate-complete"
Final    == "fix-simulate-final"
Vault    == "fix-simulate-vault"
Mocks    == "fix-simulation-mocks"
Results  == "fix-simulation-results"

Scripts == {Graphql, Complete, Final, Vault, Mocks, Results}

\* number of substitution steps of a script, in statement order
NumRules(sc) ==
    CASE sc = Graphql  -> 1
      [] sc = Complete -> 6
      [] sc = Final    -> 7
      [] sc = Vault    -> 3
      [] sc = Mocks    -> 1
      [] sc = Results  -> 5

\* the k-th substitution step of a script, in statement order
Rule(sc, k, s) ==
    CASE sc = Graphql  -> graphql_rule1(s)
      [] sc = Complete ->
            (CASE k = 1 -> complete_rule1(s)
              [] k = 2 -> complete_rule2(s)
              [] k = 3 -> complete_rule3(s)
              [] k = 4 -> complete_rule4(s)
              [] k = 5 -> complete_rule5(s)
              [] k = 6 -> complete_rule6(s))
      [] sc = Final    -> final_step(k, s)
      [] sc = Vault    ->
            (CASE k = 1 -> vault_rule1(s)
              [] k = 2 -> vault_rule2(s)
              [] k = 3 -> vault_rule3(s))
      [] sc = Mocks    -> mocks_rule1(s)
      [] sc = Results  ->
            (CASE k \in 1..4 -> results_rule1(k, s)
              [] k = 5 -> results_rule2(s))

\* the search pattern of the k-th substitution step
Pattern(sc, k) ==
    CASE sc = Graphql  -> graphql_pattern
      [] sc = Complete ->
            (CASE k = 1 -> import_pattern
              [] k = 2 -> simulation_result_pattern
              [] k = 3 -> complete_pattern3
              [] k = 4 -> complete_pattern4
              [] k = 5 -> complete_pattern5
              [] k = 6 -> complete_pattern6)
      [] sc = Final    ->
            (CASE k = 1 -> final_pattern1
              [] k \in 2..4 -> patterns_to_fix[k - 1][1]
              [] k = 5 -> final_pattern3
              [] k = 6 -> final_pattern4
              [] k = 7 -> final_pattern5)
      [] sc = Vault    ->
            (CASE k = 1 -> vault_pattern
              [] k = 2 -> fees_pattern
              [] k = 3 -> json_parse_pattern)
      [] sc = Mocks    -> mocks_pattern
      [] sc = Results  ->
            (CASE k \in 1..4 -> simulation_patterns[k][1]
              [] k = 5 -> any_data_pattern)

\* as HasHandler, with fix-simulate-vault unprotected as well
HasHandlerNotVault(sc) == sc \notin {Graphql, Vault}

\* the read-transform-write sequence is inside try/except Exception
HasHandler(sc) == sc # Graphql

\* as ExitStatus, with the two statuses confused
ExitStatusZero(success) == IF success THEN 0 ELSE 0

\* sys.exit(0 if success else 1)
ExitStatus(success) == IF success THEN 0 ELSE 1

\* status of an interpreter that ends on an uncaught exception
UncaughtStatus == 1

---------------------------------------------------------------------------
(* Text files *)

NoFile == [exists |-> FALSE, data |-> <<>>]
File(d) == [exists |-> TRUE, data |-> d]

\* as CanOpenForRead, for a mode that creates the file
CanOpenForReadOrCreate(f) == f.exists \/ ~f.exists

\* open(path, 'r'): fails when the path does not exist
CanOpenForRead(f) == f.exists

\* text mode read: "\r\n" and "\r" are translated to "\n"
ReadToken(d, i) ==
    IF d[i] = "\r" THEN <<"\n">>
    ELSE IF d[i] = "\n" /\ i > 1 /\ d[i - 1] = "\r" THEN <<>>
    ELSE <<d[i]>>

RECURSIVE ReadRange(_, _, _)
ReadRange(d, lo, hi) ==
    IF lo > hi THEN <<>>
    ELSE IF lo = hi THEN ReadToken(d, lo)
    ELSE LET mid == (lo + hi) \div 2
         IN  ReadRange(d, lo, mid) \o ReadRange(d, mid + 1, hi)

UniversalNewlines(d) == ReadRange(d, 1, Len(d))

\* os.linesep of the platform of the hard-coded paths (/Users/...)
linesep == "\n"

\* text mode write: "\n" is written as os.linesep
WriteNewlines(s) ==
    [i \in 1..Len(s) |-> IF s[i] = "\n" THEN linesep ELSE s[i]]

\* as OpenForWrite, for a mode that does not truncate
OpenForWriteKeep(f) == File(f.data)

\* open(path, 'w') truncates the file
OpenForWrite(f) == File(<<>>)

\* data written from the start of the open file
WriteAt(f, d) == File(d \o SubSeq(f.data, Len(d) + 1, Len(f.data)))

Min(a, b) == IF a < b THEN a ELSE b

\* what a write that fails can leave behind: a prefix of the data (all of
\* it when the failure comes with the close)
PartialWrites(d) == {SubSeq(d, 1, n) : n \in 0..Min(MaxPartial, Len(d))}

---------------------------------------------------------------------------
(* State *)

VARIABLES
    file,      \* the target file on disk
    plan,      \* the scripts the developer is still going to invoke
    script,    \* the script that is running
    pc,        \* its position
    content,   \* its text buffer
    rule,      \* index of the next substitution step
    out,       \* the lines it has printed
    success,   \* value returned by the fix_* function
    cur,       \* bookkeeping of the running invocation
    ran,       \* the finished invocations
    faults     \* number of I/O failures so far

vars == <<file, plan, script, pc, content, rule, out, success, cur, ran,
          faults>>

FreshRun(f) ==
    [before |-> f, didRead |-> FALSE, read |-> <<>>, writes |-> 0,
     failed |-> "none", uncaught |-> FALSE]

InitWith(files, plans) ==
    /\ file \in files
    /\ plan \in plans
    /\ script = "none"
    /\ pc = "idle"
    /\ content = <<>>
    /\ rule = 0
    /\ out = <<>>
    /\ success = FALSE
    /\ cur = FreshRun(file)
    /\ ran = <<>>
    /\ faults = 0

\* the developer starts the next script
Invoke ==
    /\ pc = "idle"
    /\ plan # <<>>
    /\ script' = Head(plan)
    /\ plan' = Tail(plan)
    /\ pc' = "read"
    /\ content' = <<>>
    /\ rule' = 0
    /\ out' = <<>>
    /\ success' = FALSE
    /\ cur' = FreshRun(file)
    /\ UNCHANGED <<file, ran, faults>>

\* with open(file_path, 'r') as file: content = file.read()
Read ==
    /\ pc = "read"
    /\ CanOpenForRead(file)
    /\ content' = UniversalNewlines(file.data)
    /\ cur' = [cur EXCEPT !.didRead = TRUE, !.read = content']
    /\ out' = IF HasHandler(script) THEN Append(out, "Processing") ELSE out
    /\ rule' = 1
    /\ pc' = "rules"
    /\ UNCHANGED <<file, plan, script, success, ran, faults>>

\* FileNotFoundError
ReadMissing ==
    /\ pc = "read"
    /\ ~CanOpenForRead(file)
    /\ cur' = [cur EXCEPT !.failed = "read"]
    /\ pc' = "raised"
    /\ UNCHANGED <<file, plan, script, content, rule, out, success, ran,
                   faults>>

\* PermissionError, UnicodeDecodeError, OSError while reading
ReadFail ==
    /\ pc = "read"
    /\ CanOpenForRead(file)
    /\ faults < MaxFaults
    /\ faults' = faults + 1
    /\ cur' = [cur EXCEPT !.failed = "read"]
    /\ pc' = "raised"
    /\ UNCHANGED <<file, plan, script, content, rule, out, success, ran>>

\* content = re.sub(...): one substitution step
ApplyRule ==
    /\ pc = "rules"
    /\ content' = Rule(script, rule, content)
    /\ IF rule < NumRules(script)
       THEN /\ rule' = rule + 1
            /\ UNCHANGED <<pc, out>>
       ELSE /\ pc' = "open"
            /\ out' = IF HasHandler(script)
                      THEN Append(out, "Applied fixes") ELSE out
            /\ UNCHANGED rule
    /\ UNCHANGED <<file, plan, script, success, cur, ran, faults>>

\* with open(file_path, 'w') as file:
OpenWrite ==
    /\ pc = "open"
    /\ file' = OpenForWrite(file)
    /\ cur' = [cur EXCEPT !.writes = @ + 1]
    /\ pc' = "write"
    /\ UNCHANGED <<plan, script, content, rule, out, success, ran, faults>>

\* PermissionError, OSError on open(file_path, 'w')
OpenWriteFail ==
    /\ pc = "open"
    /\ faults < MaxFaults
    /\ faults' = faults + 1
    /\ cur' = [cur EXCEPT !.failed = "open"]
    /\ pc' = "raised"
    /\ UNCHANGED <<file, plan, script, content, rule, out, success, ran>>

\* file.write(content), close; then the success message and return True
Write ==
    /\ pc = "write"
    /\ file' = WriteAt(file, WriteNewlines(content))
    /\ out' = Append(out, IF HasHandler(script) THEN "Successfully updated"
                          ELSE "Corrections appliquees")
    /\ success' = TRUE
    /\ pc' = "exit"
    /\ UNCHANGED <<plan, script, content, rule, cur, ran, faults>>

\* OSError while writing or closing: part of the data may be on disk
WriteFail ==
    /\ pc = "write"
    /\ faults < MaxFaults
    /\ faults' = faults + 1
    /\ \E d \in PartialWrites(WriteNewlines(content)) :
          file' = WriteAt(file, d)
    /\ cur' = [cur EXCEPT !.failed = "write"]
    /\ pc' = "raised"
    /\ UNCHANGED <<plan, script, content, rule, out, success, ran>>

\* the exception reaches `except Exception as e: print(...); return False`
\* where the script has a handler, and ends the interpreter where not
Raised ==
    /\ pc = "raised"
    /\ IF HasHandler(script)
       THEN /\ out' = Append(out, "Error processing")
            /\ UNCHANGED cur
       ELSE /\ cur' = [cur EXCEPT !.uncaught = TRUE]
            /\ UNCHANGED out
    /\ success' = FALSE
    /\ pc' = "exit"
    /\ UNCHANGED <<file, plan, script, content, rule, ran, faults>>

\* sys.exit(0 if success else 1), the end of the module, or the
\* interpreter's exit after an uncaught exception
Exit ==
    /\ pc = "exit"
    /\ ran' = Append(ran, [script |-> script,
                           status |-> IF cur.uncaught THEN UncaughtStatus
                                      ELSE ExitStatus(success),
                           out |-> out, after |-> file,
                           before |-> cur.before, didRead |-> cur.didRead,
                           read |-> cur.read, writes |-> cur.writes,
                           failed |-> cur.failed,
                           uncaught |-> cur.uncaught])
    /\ pc' = "idle"
    /\ UNCHANGED <<file, plan, script, content, rule, out, success, cur,
                   faults>>

Next ==
    \/ Invoke
    \/ Read
    \/ ReadMissing
    \/ ReadFail
    \/ ApplyRule
    \/ OpenWrite
    \/ OpenWriteFail
    \/ Write
    \/ WriteFail
    \/ Raised
    \/ Exit

---------------------------------------------------------------------------
(* Input files and specifications *)

RECURSIVE Concats(_, _)
Concats(frags, n) ==
    IF n = 0 THEN {<<>>}
    ELSE LET shorter == Concats(frags, n - 1)
         IN  shorter \cup {p \o f : p \in shorter, f \in frags}

FilesOf(frags) == {NoFile} \cup {File(d) : d \in Concats(frags, MaxFrags)}

WellFormedWithdrawal ==
        <<"const", " ", "withdrawal", "Result", ":", " ", "Simulation",
          "Result", " ", "=", " ", "{", "\n", " ", " ", "total",
          "Supply", ":", " ", "Big", "Int", "(", "'", "1", "'", ")", ",",
          "\n", " ", " ", "total", "Assets", ":", " ", "Big", "Int", "(",
          "'", "2", "'", ")", ",", "\n", " ", " ", "price", "Per",
          "Share", ":", " ", "Big", "Int", "(", "'", "3", "'", ")", ",",
          "\n", "}", ";", "\n">>

RequestMockCall ==
        <<"graphql", "Client", ".", "request", ".", "mock", "Resolved",
          "Value", "Once", "(", "{", " ", "vault", ":", " ", "mock",
          "Vault", " ", "}", ")", ";", "\n">>

ImportLine ==
        <<"import", " ", "{", " ", "x", " ", "}", " ", "from", " ", "'",
          "y", "'", ";", "\n">>

StateAccess ==
        <<"mock", "Vault", ".", "state", " ", "as", " ", "Vault", "Data",
          ";", "\n">>

ReturnObject ==
        <<"vi", ".", "mocked", "(", "simulate", "Vault", "Management",
          ")", ".", "mock", "Return", "Value", "(", "{", " ", "vault",
          ":", " ", "mock", "Vault", " ", "}", ")", ";", "\n">>

ReturnCast ==
        <<"vi", ".", "mocked", "(", "simulate", "Vault", "Management",
          ")", ".", "mock", "Return", "Value", "(", "x", " ", "as", " ",
          "any", ")", ";", "\n">>

FeesLine ==
        <<"\n", " ", " ", "fees", "Accrued", ":", " ", "Big", "Int", "(",
          "'", "5", "'", ")", ",", "\n">>

JsonParseLine ==
        <<"const", " ", "content", " ", "=", " ", "JSON", ".", "parse",
          "(", "result", ".", "content", "[", "0", "]", ".", "text", ")",
          " ", "as", " ", "Record", "<", "string", ",", " ", "unknown",
          ">", ";", "\n">>

VaultDataObject ==
        <<"const", " ", "mock", "Vault", ":", " ", "Vault", "Data", " ",
          "=", " ", "{", "a", "{", "b", "}", " ", "as", " ", "const",
          ",", "c", "{", "d", "{", "e", "}", " ", "as", " ", "const",
          ",", "f", "{", "g", "}", " ", "as", " ", "const", ",", "h",
          "}", " ", "as", " ", "const", ",", "i", "}", " ", "as", " ",
          "Vault", "Data", ";", "\n">>

BracedAppreciated ==
        <<"const", " ", "appreciated", "Result", ":", " ", "Simulation",
          "Result", " ", "=", " ", "{", " ", "total", "Supply", ":", " ",
          "Big", "Int", "(", "1", "}", " ", "total", "Assets", ":", " ",
          "Big", "Int", "(", "2", "}", " ", "}", ";", "\n">>

CrLf == <<"\r", "\n">>

PlainLine ==
        <<"x", " ", "=", " ", "1", ";", "\n">>

MainFrags ==
    {WellFormedWithdrawal, RequestMockCall, ImportLine, StateAccess,
     ReturnObject, ReturnCast, FeesLine, JsonParseLine, VaultDataObject,
     BracedAppreciated, CrLf, PlainLine}

\* one invocation of any script on any file
Init == InitWith(FilesOf(MainFrags), {<<sc>> : sc \in Scripts})

Spec == Init /\ [][Next]_vars

GraphqlFrags ==
    {
        <<"graphql", "Client", ".", "request", ".", "mock">>,
     <<"x">>, <<"(">>, <<"s">>, <<".", "calls">>,
        <<"vi", ".", "mocked", "(">>,
     CrLf}

\* fix-graphql-mocks twice in a row
InitGraphql == InitWith(FilesOf(GraphqlFrags), {<<Graphql, Graphql>>})

SpecGraphql == InitGraphql /\ [][Next]_vars

FourFieldMock ==
        <<"const", " ", "mock", "Simulation", "Result", ":", " ",
          "Simulation", "Result", " ", "=", " ", "{", "\n", " ", " ",
          "total", "Supply", ":", " ", "Big", "Int", "(", "'", "1", "'",
          ")", ",", "\n", " ", " ", "total", "Assets", ":", " ", "Big",
          "Int", "(", "'", "2", "'", ")", ",", "\n", " ", " ", "fees",
          "Accrued", ":", " ", "Big", "Int", "(", "'", "4", "'", ")",
          ",", "\n", " ", " ", "price", "Per", "Share", ":", " ", "Big",
          "Int", "(", "'", "3", "'", ")", ",", "\n", "}", ";", "\n">>

\* a feesAccrued line inside the text of another feesAccrued line
SplitFees ==
        <<"x", "\n", " ", " ", "fees", "\n", " ", " ", "fees", "Accrued",
          ":", " ", "Big", "Int", "(", "'", "1", "'", ")", ",", "\n",
          "Accrued", ":", " ", "Big", "Int", "(", "'", "2", "'", ")",
          ",", "\n", "y", "\n">>

FeesFrags ==
    {WellFormedWithdrawal, FourFieldMock, SplitFees, FeesLine, PlainLine}

\* fix-simulation-results, fix-simulate-vault, and the same again
InitFees ==
    InitWith(FilesOf(FeesFrags), {<<Results, Vault, Results, Vault>>})

SpecFees == InitFees /\ [][Next]_vars

ReturnIdent ==
        <<"vi", ".", "mocked", "(", "simulate", "Vault", "Management",
          ")", ".", "mock", "Return", "Value", "(", "withdrawal",
          "Result", ")", ";", "\n">>

ReturnNested ==
        <<"vi", ".", "mocked", "(", "simulate", "Vault", "Management",
          ")", ".", "mock", "Return", "Value", "(", "f", "(", "x", ")",
          ")", ";", "\n">>

MocksFrags == {ReturnIdent, ReturnCast, ReturnNested, ReturnObject, PlainLine}

RECURSIVE Repeat(_, _)
Repeat(sc, n) == IF n = 0 THEN <<>> ELSE <<sc>> \o Repeat(sc, n - 1)

\* fix-simulate-final n times, then fix-simulation-mocks
InitMocks ==
    InitWith(FilesOf(MocksFrags),
             {Append(Repeat(Final, n), Mocks) : n \in 1..MaxFinalRuns})

SpecMocks == InitMocks /\ [][Next]_vars

---------------------------------------------------------------------------
(* Properties *)

\* all the substitution steps of a script, composed in listed order
Patch(sc, s) ==
    CASE sc = Graphql  -> graphql_rule1(s)
      [] sc = Complete ->
            complete_rule6(complete_rule5(complete_rule4(complete_rule3(
                complete_rule2(complete_rule1(s))))))
      [] sc = Final    ->
            final_rule5(final_rule4(final_rule3(final_rule2(3,
                final_rule2(2, final_rule2(1, final_rule1(s)))))))
      [] sc = Vault    -> vault_rule3(vault_rule2(vault_rule1(s)))
      [] sc = Mocks    -> mocks_rule1(s)
      [] sc = Results  ->
            results_rule2(results_rule1(4, results_rule1(3,
                results_rule1(2, results_rule1(1, s)))))

Contains(s, toks) == \E i \in 1..Len(s) : LitAt(toks, s, i)

Count(re, s) == Cardinality(Starts(re, s))

Printed(r, line) == \E j \in DOMAIN r.out : r.out[j] = line

AllSucceeded == \A i \in DOMAIN ran : ran[i].failed = "none"

\* C1: for every script and run, the exit status is 0 exactly when the
\* read, the substitutions and the write completed without failure, and it
\* is 1 whenever one of them failed.
C1_ExitStatus ==
    \A i \in DOMAIN ran :
        /\ (ran[i].status = 0) <=> (ran[i].failed = "none")
        /\ (ran[i].failed # "none") => (ran[i].status = 1)

C1_Witness ==
    \E i \in DOMAIN ran :
        /\ ran[i].script = Graphql
        /\ ran[i].failed = "write"
        /\ ran[i].status = 1

\* C2 as stated: in each of the six scripts every failure of the read,
\* a substitution or the write is caught by the script's own handler,
\* which prints a message, and the script exits unsuccessfully; no failure
\* escapes uncaught.
C2_AllCaught ==
    \A i \in DOMAIN ran :
        (ran[i].failed # "none") =>
            /\ ~ran[i].uncaught
            /\ Printed(ran[i], "Error processing")
            /\ ran[i].status = 1

\* C2 amended: in the five scripts that define a fix_* function every
\* failure is caught by the handler, which prints a message, and the exit
\* status is 1; fix-graphql-mocks has no handler: the failure escapes the
\* script uncaught, no message is printed by the script, and the
\* interpreter ends with status 1.
C2_CaughtWhereHandled ==
    \A i \in DOMAIN ran :
        (ran[i].failed # "none") =>
            /\ ran[i].status = 1
            /\ (ran[i].script # Graphql) =>
                   /\ ~ran[i].uncaught
                   /\ ran[i].out[Len(ran[i].out)] = "Error processing"
            /\ (ran[i].script = Graphql) =>
                   /\ ran[i].uncaught
                   /\ ~Printed(ran[i], "Error processing")

C2_Witness ==
    \E i \in DOMAIN ran :
        /\ ran[i].script = Vault
        /\ ran[i].failed = "open"
        /\ Printed(ran[i], "Error processing")

\* C3: when the target path does not exist at the start of a run, the run
\* ends with exit status 1, the write step is never reached and the path
\* still does not exist afterwards.
C3_MissingFile ==
    /\ \A i \in DOMAIN ran :
           ~ran[i].before.exists =>
               /\ ran[i].status = 1
               /\ ran[i].writes = 0
               /\ ~ran[i].after.exists
    /\ (pc # "idle" /\ ~cur.before.exists) =>
           /\ pc \in {"read", "raised", "exit"}
           /\ cur.writes = 0
           /\ ~file.exists

C3_Witness ==
    \E i \in DOMAIN ran : ~ran[i].before.exists /\ ran[i].failed = "read"

\* the text a script leaves in a file with data d when nothing fails
Patched(sc, d) == WriteNewlines(Patch(sc, UniversalNewlines(d)))

IsPrefix(p, d) == Len(p) <= Len(d) /\ p = SubSeq(d, 1, Len(p))

\* C4 as stated: after every run, failed or not, the file holds either
\* exactly its content before the run or exactly the result of applying
\* all rules of the script to it, never a truncated or partial buffer.
C4_AllOrNothing ==
    \A i \in DOMAIN ran :
        \/ ran[i].after = ran[i].before
        \/ /\ ran[i].before.exists
           /\ ran[i].after = File(Patched(ran[i].script, ran[i].before.data))

\* C4 amended: a run that fails in the read step or in open(path, 'w')
\* leaves the file exactly as it was, and a run that succeeds leaves
\* exactly the result of applying all rules to the text read; a run that
\* fails while writing, after open(path, 'w') has truncated the file,
\* leaves an empty file or a prefix of the patched text.
C4_AllOrNothingUnlessWriteFails ==
    \A i \in DOMAIN ran :
        /\ ran[i].failed \in {"read", "open"} => ran[i].after = ran[i].before
        /\ ran[i].failed = "none" =>
               ran[i].after = File(Patched(ran[i].script, ran[i].before.data))
        /\ ran[i].failed = "write" =>
               /\ ran[i].after.exists
               /\ \/ ran[i].after.data = <<>>
                  \/ IsPrefix(ran[i].after.data,
                         Patched(ran[i].script, ran[i].before.data))

C4_Witness ==
    \E i \in DOMAIN ran :
        /\ ran[i].failed = "write"
        /\ ran[i].before.data # <<>>
        /\ ran[i].after.data = <<>>
        /\ Patched(ran[i].script, ran[i].before.data) # <<>>

NoRuleMatches(sc, s) ==
    \A k \in 1..NumRules(sc) : ~HasMatch(Pattern(sc, k), s)

\* C5 as stated: when no pattern of the script matches the content read,
\* the run exits with status 0 and the content written back is identical
\* to the content read, so the file is completely unchanged.
C5_NoOpLeavesFile ==
    \A i \in DOMAIN ran :
        (ran[i].failed = "none" /\ NoRuleMatches(ran[i].script, ran[i].read))
            => /\ ran[i].status = 0
               /\ ran[i].after = ran[i].before

\* C5 amended: when no pattern of the script matches the content read and
\* the read and the write do not fail, the run exits with status 0 and the
\* content written back is identical to the content read; the file is
\* unchanged except that "\r\n" and "\r" line endings have become "\n"
\* (it is completely unchanged when it holds no carriage return).
C5_NoOpUpToNewlines ==
    \A i \in DOMAIN ran :
        (ran[i].failed = "none" /\ NoRuleMatches(ran[i].script, ran[i].read))
            => /\ ran[i].status = 0
               /\ ran[i].after.data = ran[i].read
               /\ ran[i].after.data = UniversalNewlines(ran[i].before.data)
               /\ (~Contains(ran[i].before.data, <<"\r">>))
                      => ran[i].after = ran[i].before

C5_Witness ==
    \E i \in DOMAIN ran :
        /\ ran[i].script = Complete
        /\ ran[i].failed = "none"
        /\ NoRuleMatches(ran[i].script, ran[i].read)
        /\ Contains(ran[i].before.data, <<"\r">>)
        /\ Contains(ran[i].before.data, <<"x">>)

RequestMock == <<"graphql", "Client", ".", "request", ".", "mock">>

\* graphqlClient.request.mock starts at i, at a word boundary
OccursAt(s, i) ==
    /\ i >= 1
    /\ LitAt(RequestMock, s, i)
    /\ (i = 1) \/ ~IsWord(s[i - 1])

RECURSIVE Wrapped(_, _, _)
Wrapped(s, lo, hi) ==
    IF lo > hi THEN <<>>
    ELSE IF lo = hi
    THEN (IF OccursAt(s, lo) THEN <<"vi", ".", "mocked", "(">> ELSE <<>>)
         \o <<s[lo]>>
         \o (IF OccursAt(s, lo - 1) THEN <<")">> ELSE <<>>)
    ELSE LET mid == (lo + hi) \div 2
         IN  Wrapped(s, lo, mid) \o Wrapped(s, mid + 1, hi)

\* C6: a successful run of fix-graphql-mocks turns every
\* graphqlClient.request.mock that starts at a word boundary into
\* vi.mocked(graphqlClient).request.mock and changes nothing else in the
\* text; the pattern does not match its output, and a second run leaves
\* the file as the first run left it.
C6_GraphqlIdempotent ==
    /\ \A i \in DOMAIN ran :
           (ran[i].script = Graphql /\ ran[i].failed = "none") =>
               /\ ran[i].after.data = Wrapped(ran[i].read, 1, Len(ran[i].read))
               /\ ~HasMatch(graphql_pattern, ran[i].after.data)
    /\ (Len(ran) = 2 /\ AllSucceeded /\ ran[1].script = Graphql
        /\ ran[2].script = Graphql) => ran[2].after = ran[1].after

C6_Witness ==
    /\ Len(ran) = 2
    /\ AllSucceeded
    /\ ran[1].script = Graphql
    /\ ran[2].script = Graphql
    /\ \E i \in 1..Len(ran[1].read) : OccursAt(ran[1].read, i)
    /\ \E i \in 2..Len(ran[1].read) :
           LitAt(RequestMock, ran[1].read, i) /\ ~OccursAt(ran[1].read, i)
    /\ ran[2].after = ran[1].after

\* C7: in every successful run the rules are applied in listed order, each
\* to the output of the one before, and the file is written once, after
\* the last rule: the file then holds the composition of all rules applied
\* to the content read, in place of its prior content, and nothing is
\* written before or between the rules.
C7_OrderedPatchWrittenOnce ==
    /\ \A i \in DOMAIN ran :
           ran[i].failed = "none" =>
               /\ ran[i].writes = 1
               /\ ran[i].after =
                      File(WriteNewlines(Patch(ran[i].script, ran[i].read)))
    /\ cur.writes <= 1
    /\ pc \in {"read", "rules", "open"} =>
           /\ cur.writes = 0
           /\ file = cur.before
    /\ pc = "open" => content = Patch(script, cur.read)

C7_Witness ==
    \E i \in DOMAIN ran :
        /\ ran[i].script = Final
        /\ ran[i].failed = "none"
        /\ final_rule3(ran[i].read) # ran[i].read
        /\ final_rule4(final_rule3(ran[i].read)) # final_rule3(ran[i].read)
        /\ Len(ran[i].after.data) < Len(ran[i].before.data)

FeesPipelineDone ==
    /\ Len(ran) = 4
    /\ AllSucceeded
    /\ <<ran[1].script, ran[2].script, ran[3].script, ran[4].script>>
           = <<Results, Vault, Results, Vault>>

LagoonWithdrawalDecl ==
        <<"const", " ", "withdrawal", "Result", ":", " ", "Lagoon",
          "Simulation", "Result", " ", "=", " ", "{">>

\* C9: after a successful run of fix-simulate-final on a file that
\* declares withdrawalResult as a SimulationResult object with the fields
\* totalSupply, totalAssets and pricePerShare and no feesAccrued, the
\* declaration is typed LagoonSimulationResult and the object has a
\* feesAccrued field.
C9_FeesAccruedAdded ==
    \A i \in DOMAIN ran :
        (/\ ran[i].script = Final
         /\ ran[i].failed = "none"
         /\ Contains(ran[i].read, WellFormedWithdrawal))
            => /\ Contains(ran[i].after.data, LagoonWithdrawalDecl)
               /\ Contains(ran[i].after.data, <<"fees", "Accrued">>)

IdentCall ==
    Lit(MockReturnValueCall) \o <<Word>> \o Lit(<<")", ";">>)

HelperCall ==
    Lit(
        <<"mock", "Simulate", "Vault", "Management", "(">>)
    \o <<Word>> \o Lit(<<")", ";">>)

MocksPipelineDone(n) ==
    /\ Len(ran) = n + 1
    /\ plan = <<>>
    /\ AllSucceeded
    /\ \A i \in 1..n : ran[i].script = Final
    /\ ran[n + 1].script = Mocks

====
